---- MODULE Spec2Model ----
(***************************************************************************)
(* A model of the Synesthesia Simulator backend (src/src/backend/server.py) *)
(*                                                                         *)
(*  - UserPreferences: the in-memory map self.preferences, the JSON file   *)
(*    behind it, and get_preferences / set_preferences / add_preset.       *)
(*    Python dicts are objects: get_preferences returns the stored dict    *)
(*    itself when the user has one, so the model keeps a heap of dict      *)
(*    objects and the map holds references into it.                        *)
(*  - the map_number route and ContentMapper.number_to_pattern.            *)
(*  - ContentMapper: the scales, char_to_frequency, text_to_frequencies,   *)
(*    the color methods and detect_content_type, called one at a time, and *)
(*    the routes detect, map_text and map_auto over the one shared mapper, *)
(*    map_text also step by step on two request threads.                   *)
(***************************************************************************)
EXTENDS Integers, Sequences, FiniteSets, TLC

VARIABLES
    heap,            \* the dict objects allocated so far: heap[o] is the content of object o
    preferences,     \* self.preferences: hashed user id -> reference (index into heap)
    storage_file,    \* the content of self.storage_file on disk
    write_failures,  \* how many file writes have failed so far (bounded by MaxWriteFailures)
    last,            \* the last completed UserPreferences call and what it returned
    pc,              \* per request thread: position inside set_preferences
    req,             \* per request thread: the request it serves (user, prefs)
    cur,             \* per request thread: the local variable `current` (a reference)
    response,        \* the last HTTP response of a ContentMapper route
    scale,           \* content_mapper.scale: the semitone offsets in use
    scale_name,      \* content_mapper.scale_name
    mt               \* per request thread: its map_text request and how far it has got

vars == <<heap, preferences, storage_file, write_failures, last, pc, req, cur, response,
          scale, scale_name, mt>>

MapperVars == <<scale, scale_name, mt>>

-----------------------------------------------------------------------------
(* Bounds of the model *)

MaxWriteFailures == 1      \* file writes that may fail in one run
MaxNumber == 60            \* JSON numbers sent to map_number range over -MaxNumber..MaxNumber

(* Program constants *)

MaxPresets == 10           \* presets[:10]

-----------------------------------------------------------------------------
(* Values *)

Users == {"alice", "bob"}
Threads == {"t1", "t2"}

\* hashlib.sha256(identifier.encode()).hexdigest()[:16]: a fixed digest per
\* identifier; the two modelled identifiers have different digests.
get_user_id(identifier) ==
    CASE identifier = "alice" -> "2bd806c97f0e00af"
      [] identifier = "bob"   -> "81b637d8fcd2c6da"
      [] OTHER                -> "0000000000000000"

HashOrder == <<"2bd806c97f0e00af", "81b637d8fcd2c6da">>

EmptyDict == [k \in {} |-> 0]

\* the default record of get_preferences
Defaults ==
    [volume |-> 50, speed |-> 5, intensity |-> 70, scale |-> "pentatonic", presets |-> <<>>]

\* hashlib.sha256(json.dumps(preset).encode()).hexdigest()[:8]: derived from
\* the preset's content alone, so equal presets get equal ids.
PresetDigest(preset) ==
    CASE preset.name = "a" -> "ca978112"
      [] preset.name = "b" -> "3e23e816"
      [] OTHER             -> "00000000"

\* preset['id'] = <digest>
WithId(preset) == [name |-> preset.name, id |-> PresetDigest(preset)]

\* dict.update(prefs): keys of prefs overwrite, all other keys stay
DictUpdateReplaces(current, prefs) == prefs
DictUpdateIgnores(current, prefs) == current
DictUpdate(current, prefs) ==
    [k \in (DOMAIN current) \cup (DOMAIN prefs) |->
        IF k \in DOMAIN prefs THEN prefs[k] ELSE current[k]]

\* dict.get(key, default)
DictGet(d, key, default) == IF key \in DOMAIN d THEN d[key] ELSE default

\* presets[:10]
Truncate(presets) ==
    IF Len(presets) <= MaxPresets THEN presets ELSE SubSeq(presets, 1, MaxPresets)

-----------------------------------------------------------------------------
(* The JSON file *)

\* json.dump of one dict: its items by value
DictToPairs(d) == {<<k, d[k]>> : k \in DOMAIN d}
PairsToDict(ps) == [k \in {p[1] : p \in ps} |-> (CHOOSE p \in ps : p[1] = k)[2]]

\* json.dump(self.preferences, f): every user's record, by value
JsonDump(hp, pm) == {<<h, DictToPairs(hp[pm[h]])>> : h \in DOMAIN pm}

\* json.load(f): a fresh dict object per user
JsonLoad(doc) ==
    LET keys == {p[1] : p \in doc}
        InDoc(h) == h \in keys
        order == SelectSeq(HashOrder, InDoc)
        Index(h) == CHOOSE i \in 1..Len(order) : order[i] = h
    IN  [heap |-> [i \in 1..Len(order) |->
                      PairsToDict((CHOOSE p \in doc : p[1] = order[i])[2])],
         preferences |-> [h \in keys |-> Index(h)]]

AbsentFile == [kind |-> "absent", doc |-> {}]
CorruptFile == [kind |-> "corrupt", doc |-> {}]
JsonFile(doc) == [kind |-> "json", doc |-> doc]

\* _load_preferences: the file's map, or {} when it is missing or unreadable
LoadPreferences(file) ==
    IF file.kind = "json" THEN JsonLoad(file.doc) ELSE JsonLoad({})

\* How a write can end: "ok"; open() fails and the file is untouched; the
\* write fails after open() truncated the file.
WriteOutcomes == {"ok", "fail_open", "fail_write"}

\* _save_preferences: writes the whole map; an IOError is caught and dropped
SavePreferencesRaises(hp, pm, file, outcome) ==
    CASE outcome = "ok"         -> [file |-> JsonFile(JsonDump(hp, pm)), raised |-> FALSE]
      [] outcome = "fail_open"  -> [file |-> file, raised |-> TRUE]
      [] outcome = "fail_write" -> [file |-> CorruptFile, raised |-> TRUE]
SavePreferencesOneUser(hp, pm, file, outcome) ==
    CASE outcome = "ok"         ->
            [file |-> JsonFile({p \in JsonDump(hp, pm) : p[1] = HashOrder[1]}),
             raised |-> FALSE]
      [] outcome = "fail_open"  -> [file |-> file, raised |-> FALSE]
      [] outcome = "fail_write" -> [file |-> CorruptFile, raised |-> FALSE]
SavePreferences(hp, pm, file, outcome) ==
    CASE outcome = "ok"         -> [file |-> JsonFile(JsonDump(hp, pm)), raised |-> FALSE]
      [] outcome = "fail_open"  -> [file |-> file, raised |-> FALSE]
      [] outcome = "fail_write" -> [file |-> CorruptFile, raised |-> FALSE]

-----------------------------------------------------------------------------
(* UserPreferences *)

HasRecord(pm, h) == h \in DOMAIN pm

\* self.preferences.get(hashed_id, {defaults}): the stored object itself, or
\* a fresh default dict
GetValue(hp, pm, h) == IF HasRecord(pm, h) THEN hp[pm[h]] ELSE Defaults

\* the same, as a reference: a missing record allocates the default dict
GetRef(hp, pm, h) ==
    IF HasRecord(pm, h)
    THEN [heap |-> hp, ref |-> pm[h]]
    ELSE [heap |-> Append(hp, Defaults), ref |-> Len(hp) + 1]

\* self.preferences[hashed_id] = current
StoreRefOnly(pm, h, ref) == [x \in {h} |-> ref]
StoreRef(pm, h, ref) == [x \in (DOMAIN pm) \cup {h} |-> IF x = h THEN ref ELSE pm[x]]

\* the body of set_preferences, run without interruption
SetEffect(hp, pm, file, user_id, prefs, outcome) ==
    LET hashed_id == get_user_id(user_id)
        g == GetRef(hp, pm, hashed_id)
        hp1 == [g.heap EXCEPT ![g.ref] = DictUpdate(@, prefs)]
        pm1 == StoreRef(pm, hashed_id, g.ref)
        s == SavePreferences(hp1, pm1, file, outcome)
    IN  [heap |-> hp1, preferences |-> pm1, file |-> s.file,
         raised |-> s.raised, ret |-> hp1[g.ref]]

NoCall == [op |-> "none", user |-> "none", arg |-> EmptyDict, ret |-> EmptyDict,
           raised |-> FALSE, outcome |-> "ok"]

CanWrite(outcome) == outcome = "ok" \/ write_failures < MaxWriteFailures
CountWrite(outcome) == IF outcome = "ok" THEN write_failures ELSE write_failures + 1

ThreadVars == <<pc, req, cur>>

\* get_preferences(user_id), lines 363-380
get_preferences_setdefault(user_id) ==
    LET g == GetRef(heap, preferences, get_user_id(user_id))
    IN  /\ heap' = g.heap
        /\ preferences' = StoreRef(preferences, get_user_id(user_id), g.ref)
        /\ last' = [op |-> "get_preferences", user |-> user_id, arg |-> EmptyDict,
                    ret |-> g.heap[g.ref], raised |-> FALSE, outcome |-> "ok"]
        /\ UNCHANGED <<storage_file, write_failures, ThreadVars, response, MapperVars>>
get_preferences(user_id) ==
    /\ last' = [op |-> "get_preferences", user |-> user_id, arg |-> EmptyDict,
                ret |-> GetValue(heap, preferences, get_user_id(user_id)),
                raised |-> FALSE, outcome |-> "ok"]
    /\ UNCHANGED <<heap, preferences, storage_file, write_failures, ThreadVars, response, MapperVars>>

\* set_preferences(user_id, prefs), lines 382-398
set_preferences(user_id, prefs, outcome) ==
    /\ CanWrite(outcome)
    /\ LET e == SetEffect(heap, preferences, storage_file, user_id, prefs, outcome)
       IN  /\ heap' = e.heap
           /\ preferences' = e.preferences
           /\ storage_file' = e.file
           /\ last' = [op |-> "set_preferences", user |-> user_id, arg |-> prefs,
                       ret |-> IF e.raised THEN EmptyDict ELSE e.ret,
                       raised |-> e.raised, outcome |-> outcome]
    /\ write_failures' = CountWrite(outcome)
    /\ UNCHANGED <<ThreadVars, response, MapperVars>>

\* add_preset(user_id, preset), lines 400-417
add_preset(user_id, preset, outcome) ==
    /\ CanWrite(outcome)
    /\ LET hashed_id == get_user_id(user_id)
           has == HasRecord(preferences, hashed_id)
           prefs0 == GetValue(heap, preferences, hashed_id)
           presets == Append(DictGet(prefs0, "presets", <<>>), WithId(preset))
           prefs == DictUpdate(prefs0, [presets |-> Truncate(presets)])
           \* prefs is the stored dict when there is one: the assignment to
           \* prefs['presets'] already changed the stored record
           hp0 == IF has THEN [heap EXCEPT ![preferences[hashed_id]] = prefs] ELSE heap
           e == SetEffect(hp0, preferences, storage_file, user_id, prefs, outcome)
       IN  /\ heap' = e.heap
           /\ preferences' = e.preferences
           /\ storage_file' = e.file
           /\ last' = [op |-> "add_preset", user |-> user_id, arg |-> preset,
                       ret |-> IF e.raised THEN <<>> ELSE prefs["presets"],
                       raised |-> e.raised, outcome |-> outcome]
    /\ write_failures' = CountWrite(outcome)
    /\ UNCHANGED <<ThreadVars, response, MapperVars>>

-----------------------------------------------------------------------------
(* ContentMapper: the scales *)

PENTATONIC_SCALE == <<0, 2, 4, 7, 9>>
MAJOR_SCALE == <<0, 2, 4, 5, 7, 9, 11>>
MINOR_SCALE == <<0, 2, 3, 5, 7, 8, 10>>

\* _get_scale: scales.get(scale_name, self.PENTATONIC_SCALE)
get_scale_raises(name) ==
    CASE name = "pentatonic" -> PENTATONIC_SCALE
      [] name = "major"      -> MAJOR_SCALE
      [] name = "minor"      -> MINOR_SCALE
      [] OTHER               -> <<>>
get_scale(name) ==
    CASE name = "pentatonic" -> PENTATONIC_SCALE
      [] name = "major"      -> MAJOR_SCALE
      [] name = "minor"      -> MINOR_SCALE
      [] OTHER               -> PENTATONIC_SCALE

\* a request thread that serves no map_text request
MtIdle == [pc |-> "idle", text |-> <<>>, scale |-> "pentatonic", i |-> 1,
           scale_index |-> 0, octave_offset |-> 0, out |-> <<>>]

-----------------------------------------------------------------------------
(* Inputs *)

Preset(n) == [name |-> n]

\* a 'presets' value with one entry more than add_preset keeps
Overfull == [i \in 1..(MaxPresets + 1) |-> WithId(Preset("a"))]

PrefsInputs ==
    { [volume |-> 80, theme |-> "dark"],
      [presets |-> Overfull] }

\* the storage file a store may be constructed over
InitialFiles ==
    { AbsentFile, CorruptFile,
      JsonFile({<<get_user_id("bob"), DictToPairs([volume |-> 80])>>}) }

NoResponse == [endpoint |-> "none", status |-> 0]

Init ==
    /\ storage_file \in InitialFiles
    /\ heap = LoadPreferences(storage_file).heap
    /\ preferences = LoadPreferences(storage_file).preferences
    /\ write_failures = 0
    /\ last = NoCall
    /\ pc = [t \in Threads |-> "idle"]
    /\ req = [t \in Threads |-> [user |-> "none", prefs |-> EmptyDict]]
    /\ cur = [t \in Threads |-> 0]
    /\ response = NoResponse
    /\ scale = get_scale("pentatonic")
    /\ scale_name = "pentatonic"
    /\ mt = [t \in Threads |-> MtIdle]

\* The store used by one request at a time
Next ==
    \/ \E u \in Users : get_preferences(u)
    \/ \E u \in Users, p \in PrefsInputs, w \in WriteOutcomes : set_preferences(u, p, w)
    \/ \E u \in Users, w \in WriteOutcomes : add_preset(u, Preset("a"), w)

Spec == Init /\ [][Next]_vars

\* One user's preset list, built from two different presets
NextPresets ==
    \/ get_preferences("alice")
    \/ \E n \in {"a", "b"} : add_preset("alice", Preset(n), "ok")

SpecPresets == Init /\ [][NextPresets]_vars

-----------------------------------------------------------------------------
(* set_preferences as the request threads of the server run it: one step per *)
(* statement, the threads' steps interleaved                                 *)

ConcInputs == { [volume |-> 80], [theme |-> "dark"], [scale |-> "major"] }

StoreVars == <<heap, preferences, storage_file, write_failures>>

\* lines 393-394: hashed_id = ...; current = self.get_preferences(user_id)
set_read(t, user_id, prefs) ==
    /\ pc[t] = "idle"
    /\ LET g == GetRef(heap, preferences, get_user_id(user_id))
       IN  /\ heap' = g.heap
           /\ cur' = [cur EXCEPT ![t] = g.ref]
    /\ req' = [req EXCEPT ![t] = [user |-> user_id, prefs |-> prefs]]
    /\ pc' = [pc EXCEPT ![t] = "update"]
    /\ UNCHANGED <<preferences, storage_file, write_failures, last, response, MapperVars>>

\* line 395: current.update(prefs)
set_update(t) ==
    /\ pc[t] = "update"
    /\ heap' = [heap EXCEPT ![cur[t]] = DictUpdate(@, req[t].prefs)]
    /\ pc' = [pc EXCEPT ![t] = "store"]
    /\ UNCHANGED <<preferences, storage_file, write_failures, last, req, cur, response, MapperVars>>

\* line 396: self.preferences[hashed_id] = current
set_store(t) ==
    /\ pc[t] = "store"
    /\ preferences' = StoreRef(preferences, get_user_id(req[t].user), cur[t])
    /\ pc' = [pc EXCEPT ![t] = "save"]
    /\ UNCHANGED <<heap, storage_file, write_failures, last, req, cur, response, MapperVars>>

\* lines 397-398: self._save_preferences(); return current
set_save(t, outcome) ==
    /\ pc[t] = "save"
    /\ CanWrite(outcome)
    /\ LET s == SavePreferences(heap, preferences, storage_file, outcome)
       IN  /\ storage_file' = s.file
           /\ last' = [op |-> "set_preferences", user |-> req[t].user,
                       arg |-> req[t].prefs,
                       ret |-> IF s.raised THEN EmptyDict ELSE heap[cur[t]],
                       raised |-> s.raised, outcome |-> outcome]
    /\ write_failures' = CountWrite(outcome)
    /\ pc' = [pc EXCEPT ![t] = "done"]
    /\ UNCHANGED <<heap, preferences, req, cur, response, MapperVars>>

\* Each thread serves one set_preferences request
NextConc ==
    \/ \E t \in Threads, u \in Users, p \in ConcInputs : set_read(t, u, p)
    \/ \E t \in Threads : set_update(t)
    \/ \E t \in Threads : set_store(t)
    \/ \E t \in Threads, w \in WriteOutcomes : set_save(t, w)

SpecConc == Init /\ [][NextConc]_vars

-----------------------------------------------------------------------------
(* Properties of UserPreferences *)

LastN(s, n) == IF Len(s) <= n THEN s ELSE SubSeq(s, Len(s) - n + 1, Len(s))

\* the record get_preferences would return for a user, and its presets
RecordOf(hp, pm, u) == GetValue(hp, pm, get_user_id(u))
PresetsOf(hp, pm, u) == DictGet(RecordOf(hp, pm, u), "presets", <<>>)

IsWrite(call) == call.op \in {"set_preferences", "add_preset"}

\* C1: each add_preset call leaves the user with the most recent MaxPresets
\* of the old presets followed by the new one (with its id), in the order
\* they were added, and returns that list, whose last entry is the preset
\* just added.
C1_AddPresetKeepsMostRecent ==
    [][ last'.op = "add_preset" =>
          LET u == last'.user
              expected == LastN(Append(PresetsOf(heap, preferences, u), WithId(last'.arg)),
                                MaxPresets)
          IN  /\ PresetsOf(heap', preferences', u) = expected
              /\ last'.ret = expected ]_vars

\* C2: every stored record has at most MaxPresets presets.
C2_AtMostTenPresets ==
    \A h \in DOMAIN preferences :
        Len(DictGet(heap[preferences[h]], "presets", <<>>)) <= MaxPresets

\* C3: when two concurrent set_preferences requests for the same user with
\* different keys have both completed, the user's record holds both updates.
C3_NoLostUpdate ==
    ( /\ \A t \in Threads : pc[t] = "done"
      /\ \A t1, t2 \in Threads :
            t1 # t2 => /\ req[t1].user = req[t2].user
                       /\ (DOMAIN req[t1].prefs) \cap (DOMAIN req[t2].prefs) = {} )
    => \A t \in Threads :
          LET r == RecordOf(heap, preferences, req[t].user)
          IN  \A k \in DOMAIN req[t].prefs : k \in DOMAIN r /\ r[k] = req[t].prefs[k]

\* C4: set_preferences(u, p) leaves every key of p with the value p gives it
\* in the record get_preferences(u) returns; get_preferences returns the
\* stored value of every key and changes nothing; and a key of u's record
\* changes only in a write for u that covers that key (set_preferences with
\* the key in its argument, add_preset for 'presets').
C4_SetThenGet ==
    [][ /\ last'.op = "set_preferences" =>
              LET r == RecordOf(heap', preferences', last'.user)
              IN  \A k \in DOMAIN last'.arg : k \in DOMAIN r /\ r[k] = last'.arg[k]
        /\ last'.op = "get_preferences" =>
              /\ last'.ret = RecordOf(heap, preferences, last'.user)
              /\ last'.ret = RecordOf(heap', preferences', last'.user)
        /\ \A u \in Users :
              LET before == RecordOf(heap, preferences, u)
                  after == RecordOf(heap', preferences', u)
                  Covered(k) ==
                      /\ last'.user = u
                      /\ \/ last'.op = "set_preferences" /\ k \in DOMAIN last'.arg
                         \/ last'.op = "add_preset" /\ k = "presets"
              IN  \A k \in DOMAIN before :
                      ~Covered(k) => k \in DOMAIN after /\ after[k] = before[k] ]_vars

C4_Witness ==
    /\ last.op = "get_preferences"
    /\ last.user = "alice"
    /\ HasRecord(preferences, get_user_id("alice"))
    /\ last.ret["volume"] = 80
    /\ Len(last.ret["presets"]) = 2

\* C5: set_preferences(u, partial) keeps every key of u's previous record
\* (the defaults when u had none) that partial does not name, with its
\* previous value, in the stored and in the returned record, whose keys are
\* the previous keys and the keys of partial.
C5_ShallowMerge ==
    [][ last'.op = "set_preferences" =>
          LET before == RecordOf(heap, preferences, last'.user)
              after == RecordOf(heap', preferences', last'.user)
          IN  /\ DOMAIN after = (DOMAIN before) \cup (DOMAIN last'.arg)
              /\ DOMAIN last'.ret = DOMAIN after
              /\ \A k \in (DOMAIN before) \ (DOMAIN last'.arg) :
                    after[k] = before[k] /\ last'.ret[k] = before[k] ]_vars

C5_Witness ==
    /\ last.op = "set_preferences"
    /\ last.user = "alice"
    /\ last.arg = [presets |-> Overfull]
    /\ last.ret["volume"] = 80
    /\ last.ret["theme"] = "dark"
    /\ RecordOf(heap, preferences, "alice") = last.ret

\* C6: get_preferences changes neither the store nor the file, and for a
\* user with no record returns exactly volume=50, speed=5, intensity=70,
\* scale='pentatonic', presets=[]; a user gets a record only in a
\* set_preferences or add_preset call for that user.
C6_DefaultsWithoutRecord ==
    [][ /\ last'.op = "get_preferences" =>
              /\ <<heap', preferences', storage_file'>> = <<heap, preferences, storage_file>>
              /\ ~HasRecord(preferences, get_user_id(last'.user)) =>
                    last'.ret = [volume |-> 50, speed |-> 5, intensity |-> 70,
                                 scale |-> "pentatonic", presets |-> <<>>]
        /\ \A u \in Users :
              (~HasRecord(preferences, get_user_id(u))
                  /\ HasRecord(preferences', get_user_id(u)))
              => IsWrite(last') /\ last'.user = u ]_vars

C6_Witness ==
    /\ last.op = "get_preferences"
    /\ last.user = "alice"
    /\ ~HasRecord(preferences, get_user_id("alice"))
    /\ HasRecord(preferences, get_user_id("bob"))
    /\ last.ret["volume"] = 50

\* C7: a user key that has a stored record keeps it in every later state,
\* and no key of a stored record is ever removed.
C7_NeverDeleted ==
    [][ \A h \in DOMAIN preferences :
          /\ h \in DOMAIN preferences'
          /\ (DOMAIN heap[preferences[h]]) \subseteq (DOMAIN heap'[preferences'[h]]) ]_vars

C7_Witness ==
    /\ IsWrite(last)
    /\ last.user = "alice"
    /\ DOMAIN preferences = {get_user_id("alice"), get_user_id("bob")}
    /\ "theme" \in DOMAIN RecordOf(heap, preferences, "bob")
    /\ Len(PresetsOf(heap, preferences, "bob")) = MaxPresets

\* C8: after a set_preferences or add_preset whose file write succeeded, a
\* store loaded from the storage file returns for every user the record the
\* writing store returns.
C8_FileHoldsWholeMap ==
    (IsWrite(last) /\ last.outcome = "ok") =>
        /\ storage_file.kind = "json"
        /\ LET loaded == LoadPreferences(storage_file)
           IN  /\ DOMAIN loaded.preferences = DOMAIN preferences
               /\ \A u \in Users :
                     RecordOf(loaded.heap, loaded.preferences, u)
                        = RecordOf(heap, preferences, u)

C8_Witness ==
    /\ last.op = "add_preset"
    /\ last.outcome = "ok"
    /\ write_failures = 1
    /\ DOMAIN preferences = {get_user_id("alice"), get_user_id("bob")}
    /\ RecordOf(heap, preferences, "alice") # RecordOf(heap, preferences, "bob")
    /\ storage_file = JsonFile(JsonDump(heap, preferences))

\* C9: no call raises; a set_preferences or add_preset whose file write
\* failed still leaves the merged record in the in-memory store, and returns
\* it (set_preferences) or its presets (add_preset).
C9_WriteFailureSwallowed ==
    [][ /\ ~last'.raised
        /\ (IsWrite(last') /\ last'.outcome # "ok") =>
              LET before == RecordOf(heap, preferences, last'.user)
                  after == RecordOf(heap', preferences', last'.user)
              IN  /\ HasRecord(preferences', get_user_id(last'.user))
                  /\ last'.op = "set_preferences" =>
                        /\ last'.ret = after
                        /\ \A k \in DOMAIN last'.arg : after[k] = last'.arg[k]
                        /\ \A k \in (DOMAIN before) \ (DOMAIN last'.arg) :
                              after[k] = before[k]
                  /\ last'.op = "add_preset" =>
                        /\ last'.ret = after["presets"]
                        /\ Len(last'.ret) >= 1 ]_vars

C9_Witness ==
    /\ last.op = "set_preferences"
    /\ last.outcome = "fail_write"
    /\ storage_file.kind = "corrupt"
    /\ last.ret["volume"] = 80
    /\ RecordOf(heap, preferences, last.user) = last.ret

-----------------------------------------------------------------------------
(* The map_number route and ContentMapper.number_to_pattern                  *)

\* Python floats: a finite value (the model keeps the integral ones), nan,
\* or an infinity (val is its sign)
Fin(n) == [cls |-> "finite", val |-> n]
NaN == [cls |-> "nan", val |-> 0]
Inf(sign) == [cls |-> "inf", val |-> sign]

\* Strings are sequences of one-character strings
Whitespace == {" ", "\t", "\n", "U+00A0"}
Digits == <<"0", "1", "2", "3", "4", "5", "6", "7", "8", "9">>
IsDigit(c) == \E i \in 1..Len(Digits) : Digits[i] = c
DigitValue(c) == (CHOOSE i \in 1..Len(Digits) : Digits[i] = c) - 1

Lower(c) ==
    CASE c = "N" -> "n" [] c = "A" -> "a" [] c = "I" -> "i" [] c = "F" -> "f"
      [] c = "T" -> "t" [] c = "Y" -> "y" [] OTHER -> c

\* str.strip()
RECURSIVE LStrip(_)
LStrip(s) == IF s # <<>> /\ Head(s) \in Whitespace THEN LStrip(Tail(s)) ELSE s
RECURSIVE RStrip(_)
RStrip(s) ==
    IF s # <<>> /\ s[Len(s)] \in Whitespace THEN RStrip(SubSeq(s, 1, Len(s) - 1)) ELSE s
Strip(s) == RStrip(LStrip(s))

RECURSIVE DecimalValue(_)
DecimalValue(ds) ==
    IF ds = <<>> THEN 0
    ELSE 10 * DecimalValue(SubSeq(ds, 1, Len(ds) - 1)) + DigitValue(ds[Len(ds)])

\* float(<str>): surrounding whitespace is dropped, then an optional sign and
\* either decimal digits, 'nan', 'inf' or 'infinity' (any case). Exact for
\* strings without '.', 'e', 'E', '_' and digits of other scripts; anything
\* else is a ValueError.
ParseFloat(s) ==
    LET t == Strip(s)
        signed == t # <<>> /\ Head(t) \in {"+", "-"}
        sign == IF signed /\ Head(t) = "-" THEN -1 ELSE 1
        rest == IF signed THEN Tail(t) ELSE t
        low == [i \in 1..Len(rest) |-> Lower(rest[i])]
    IN  CASE low = <<"n", "a", "n">> -> [ok |-> TRUE, error |-> "", value |-> NaN]
          [] low \in {<<"i", "n", "f">>, <<"i", "n", "f", "i", "n", "i", "t", "y">>} ->
                [ok |-> TRUE, error |-> "", value |-> Inf(sign)]
          [] rest # <<>> /\ \A i \in 1..Len(rest) : IsDigit(rest[i]) ->
                [ok |-> TRUE, error |-> "", value |-> Fin(sign * DecimalValue(rest))]
          [] OTHER -> [ok |-> FALSE, error |-> "ValueError", value |-> NaN]

\* The JSON value sent as 'number' (request.get_json accepts the literals
\* NaN, Infinity and -Infinity as numbers)
JMissing == [kind |-> "missing", num |-> Fin(0), text |-> <<>>]
JNull == [kind |-> "null", num |-> Fin(0), text |-> <<>>]
JBool(b) == [kind |-> "boolean", num |-> Fin(IF b THEN 1 ELSE 0), text |-> <<>>]
JNumber(f) == [kind |-> "number", num |-> f, text |-> <<>>]
JString(s) == [kind |-> "string", num |-> Fin(0), text |-> s]
JArray == [kind |-> "array", num |-> Fin(0), text |-> <<>>]

\* float(data.get('number', 0))
PyFloat(v) ==
    CASE v.kind \in {"missing", "boolean", "number"} ->
            [ok |-> TRUE, error |-> "", value |-> v.num]
      [] v.kind = "string" -> ParseFloat(v.text)
      [] OTHER -> [ok |-> FALSE, error |-> "TypeError", value |-> NaN]

Abs(n) == IF n < 0 THEN -n ELSE n
MinLeft(a, b) == a
Min(a, b) == IF a <= b THEN a ELSE b

\* number_to_pattern, lines 259-268
PatternOfSweepFirst(number) ==
    CASE number % 5 = 0 -> "sweep"
      [] number % 7 = 0 -> "wave"
      [] number % 3 = 0 -> "arpeggio"
      [] number % 2 = 0 -> "pulse"
      [] OTHER          -> "steady"
PatternOf(number) ==
    CASE number % 7 = 0 -> "wave"
      [] number % 5 = 0 -> "sweep"
      [] number % 3 = 0 -> "arpeggio"
      [] number % 2 = 0 -> "pulse"
      [] OTHER          -> "steady"

\* number_to_pattern(number). The float arithmetic of lines 254-268 raises
\* nothing, also on nan and the infinities; int(abs_num) on line 271 raises
\* ValueError for nan and OverflowError for an infinity. frequency_exp is the
\* exponent of line 257 in hundredths: frequency = 100 * 10 ** (frequency_exp / 100).
number_to_pattern(number) ==
    CASE number.cls = "nan" -> [raised |-> "ValueError", result |-> EmptyDict]
      [] number.cls = "inf" -> [raised |-> "OverflowError", result |-> EmptyDict]
      [] OTHER ->
            LET abs_num == Abs(number.val)
            IN  [raised |-> "",
                 result |->
                    [frequency_exp |-> abs_num % 100,
                     pattern |-> PatternOf(number.val),
                     oscillator_count |-> Min((abs_num \div 10) + 1, 5),
                     sides |-> 3 + (abs_num % 7),
                     rotation_speed |-> (abs_num % 10) + 1,
                     color_hue |-> (abs_num * 30) % 360,
                     particle_count |-> Min(abs_num, 100),
                     is_negative |-> number.val < 0,
                     magnitude |-> abs_num]]

\* the route /api/map/number, lines 498-510: only float() is inside the try;
\* an exception of number_to_pattern leaves the handler (HTTP 500)
map_number(v) ==
    /\ LET f == PyFloat(v)
           r == number_to_pattern(f.value)
       IN  response' =
              IF ~f.ok
              THEN [endpoint |-> "map_number", input |-> v, status |-> 400,
                    error |-> "Invalid number", body |-> EmptyDict]
              ELSE IF r.raised # ""
              THEN [endpoint |-> "map_number", input |-> v, status |-> 500,
                    error |-> r.raised, body |-> EmptyDict]
              ELSE [endpoint |-> "map_number", input |-> v, status |-> 200,
                    error |-> "", body |-> r.result]
    /\ UNCHANGED <<StoreVars, last, ThreadVars, MapperVars>>

NumberStrings ==
    { <<"4", "2">>, <<"-", "7">>, <<" ", "1", "2", " ">>, <<"+", "3">>,
      <<"n", "o", "t", " ", "a", " ", "n", "u", "m", "b", "e", "r">>,
      <<>>, <<"-">>, <<"#", "1", "2", "3">>,
      <<"n", "a", "n">>, <<"N", "a", "N">>, <<"i", "n", "f">>,
      <<"-", "i", "n", "f">>, <<"I", "n", "f", "i", "n", "i", "t", "y">> }

\* integers beyond the caps of particle_count and oscillator_count
LargeNumbers == {-250, -105, -100, 100, 101, 105, 250}

NumberInputs ==
    {JMissing, JNull, JBool(TRUE), JBool(FALSE), JArray}
    \cup {JNumber(Fin(n)) : n \in (-MaxNumber)..MaxNumber}
    \cup {JNumber(Fin(n)) : n \in LargeNumbers}
    \cup {JNumber(NaN), JNumber(Inf(1)), JNumber(Inf(-1))}
    \cup {JString(s) : s \in NumberStrings}

NextMap == \E v \in NumberInputs : map_number(v)

SpecMap == Init /\ [][NextMap]_vars

\* C10: every map_number request ends either in the 'Invalid number'
\* rejection (HTTP 400), exactly when float() cannot parse the supplied
\* value, or in a pattern result (HTTP 200); none ends in an unhandled error.
C10_MapNumberRejectsOrAnswers ==
    response.endpoint = "map_number" =>
        \/ /\ ~PyFloat(response.input).ok
           /\ response.status = 400
           /\ response.error = "Invalid number"
        \/ /\ PyFloat(response.input).ok
           /\ response.status = 200
           /\ "pattern" \in DOMAIN response.body

\* n is k times d for an integer k
Multiple(n, d) == \E k \in (-n)..n \cup n..(-n) : n = k * d

\* C21: for an integer n number_to_pattern selects the pattern by the
\* divisibility of the signed n: 'wave' for a multiple of 7, else 'sweep' for
\* a multiple of 5, else 'arpeggio' for a multiple of 3, else 'pulse' for a
\* multiple of 2, else 'steady'.
C21_PatternByDivisibility ==
    (response.endpoint = "map_number" /\ response.input.kind = "number"
     /\ response.input.num.cls = "finite") =>
        LET n == response.input.num.val
        IN  /\ response.status = 200
            /\ response.body.pattern =
                  IF Multiple(n, 7) THEN "wave"
                  ELSE IF Multiple(n, 5) THEN "sweep"
                  ELSE IF Multiple(n, 3) THEN "arpeggio"
                  ELSE IF Multiple(n, 2) THEN "pulse"
                  ELSE "steady"

C21_Witness ==
    /\ response.endpoint = "map_number"
    /\ response.input = JNumber(Fin(-35))
    /\ response.body.pattern = "wave"

\* C22: for an integer n the result stays in its ranges: sides = 3 + (|n| mod 7)
\* in 3..9, oscillator_count = min(floor(|n|/10)+1, 5) in 1..5,
\* particle_count = min(|n|, 100) in 0..100, color_hue = (|n|*30) mod 360 in
\* [0,360), is_negative exactly when n < 0, magnitude = |n|.
C22_ResultInRanges ==
    (response.endpoint = "map_number" /\ response.input.kind = "number"
     /\ response.input.num.cls = "finite") =>
        LET n == response.input.num.val
            a == IF n < 0 THEN 0 - n ELSE n
            b == response.body
        IN  /\ response.status = 200
            /\ b.sides = 3 + (a % 7) /\ b.sides \in 3..9
            /\ b.oscillator_count = (IF a >= 40 THEN 5 ELSE (a \div 10) + 1)
            /\ b.oscillator_count \in 1..5
            /\ b.particle_count = (IF a >= 100 THEN 100 ELSE a)
            /\ b.particle_count \in 0..100
            /\ b.color_hue = (a * 30) % 360 /\ b.color_hue \in 0..359
            /\ b.is_negative = (n < 0)
            /\ b.magnitude = a

C22_Witness ==
    /\ response.endpoint = "map_number"
    /\ response.input = JNumber(Fin(-250))
    /\ response.body.particle_count = 100
    /\ response.body.oscillator_count = 5
    /\ response.body.is_negative

-----------------------------------------------------------------------------
(* ContentMapper: text to frequencies                                        *)
(*                                                                           *)
(* A character is a one-character string; a character outside ASCII is      *)
(* written by its code point ("U+00DF" is the sharp s). A frequency          *)
(* BASE_FREQUENCY * 2 ** (n / 12) is kept as its number n of semitones above *)
(* BASE_FREQUENCY, a duration in tenths of a second.                         *)

Uppers == <<"A", "B", "C", "D", "E", "F", "G", "H", "I", "J", "K", "L", "M",
            "N", "O", "P", "Q", "R", "S", "T", "U", "V", "W", "X", "Y", "Z">>
Lowers == <<"a", "b", "c", "d", "e", "f", "g", "h", "i", "j", "k", "l", "m",
            "n", "o", "p", "q", "r", "s", "t", "u", "v", "w", "x", "y", "z">>

IndexIn(seq, c) == CHOOSE i \in 1..Len(seq) : seq[i] = c
IsIn(seq, c) == \E i \in 1..Len(seq) : seq[i] = c

\* str.upper(): a string, not always of one character
Upper(c) ==
    CASE IsIn(Lowers, c) -> <<Uppers[IndexIn(Lowers, c)]>>
      [] c = "U+00E9"    -> <<"U+00C9">>      \* e acute
      [] c = "U+00DF"    -> <<"S", "S">>      \* sharp s
      [] c = "U+0131"    -> <<"I">>           \* dotless i
      [] c = "U+017F"    -> <<"S">>           \* long s
      [] OTHER           -> <<c>>

\* ord()
Ord(c) ==
    CASE IsIn(Uppers, c) -> 64 + IndexIn(Uppers, c)
      [] IsIn(Lowers, c) -> 96 + IndexIn(Lowers, c)
      [] IsIn(Digits, c) -> 47 + IndexIn(Digits, c)
      [] c = "\t" -> 9 [] c = "\n" -> 10 [] c = " " -> 32 [] c = "!" -> 33
      [] c = "#" -> 35 [] c = "+" -> 43 [] c = "-" -> 45 [] c = "." -> 46
      [] c = "U+00A0" -> 160 [] c = "U+00C9" -> 201 [] c = "U+00DF" -> 223
      [] c = "U+00E9" -> 233 [] c = "U+0131" -> 305 [] c = "U+017F" -> 383
      [] c = "U+0663" -> 1635
      [] OTHER -> 0

\* char_to_frequency(char) under the scale sc, lines 69-88; char is a string
\* of at most one character. ord() raises TypeError on a string of two.
char_to_frequency_no_octave(sc, char) ==
    IF char = <<>> THEN [raised |-> "", semitones |-> 0]
    ELSE LET up == Upper(char[1])
             char_code == Ord(up[1])
         IN  IF Len(up) # 1 THEN [raised |-> "TypeError", semitones |-> 0]
             ELSE IF 65 <= char_code /\ char_code <= 90
             THEN [raised |-> "", semitones |-> sc[((char_code - 65) % Len(sc)) + 1]]
             ELSE IF 48 <= char_code /\ char_code <= 57
             THEN [raised |-> "", semitones |-> char_code - 48]
             ELSE [raised |-> "", semitones |-> 0]
char_to_frequency(sc, char) ==
    IF char = <<>> THEN [raised |-> "", semitones |-> 0]
    ELSE LET up == Upper(char[1])
             char_code == Ord(up[1])
             note_index == char_code - 65
             scale_index == note_index % Len(sc)
             octave_offset == (note_index \div Len(sc)) * 12
         IN  IF Len(up) # 1 THEN [raised |-> "TypeError", semitones |-> 0]
             ELSE IF 65 <= char_code /\ char_code <= 90
             THEN [raised |-> "", semitones |-> sc[scale_index + 1] + octave_offset]
             ELSE IF 48 <= char_code /\ char_code <= 57
             THEN [raised |-> "", semitones |-> char_code - 48]
             ELSE [raised |-> "", semitones |-> 0]

NoteNames == <<"C", "C#", "D", "D#", "E", "F", "F#", "G", "G#", "A", "A#", "B">>

\* _frequency_to_note of BASE_FREQUENCY * 2 ** (n / 12):
\* 12 * log2(frequency / 440) + 69 = n - 12 + 69
frequency_to_note(n) ==
    LET semitones == n + 57
    IN  [name |-> NoteNames[(semitones % 12) + 1], octave |-> (semitones \div 12) - 1]

RestNote == [name |-> "rest", octave |-> 0]

\* the entry text_to_frequencies appends for the character at 0-based index i
\* whose frequency is n semitones above the base, and for a whitespace character
ToneEntry(i, c, n) ==
    [index |-> i, char |-> c, silent |-> FALSE, semitones |-> n,
     note |-> frequency_to_note(n), duration |-> 2]
RestEntry(i, c) ==
    [index |-> i, char |-> c, silent |-> TRUE, semitones |-> 0,
     note |-> RestNote, duration |-> 1]

\* text_to_frequencies(text) under the scale sc, lines 100-119: an exception
\* of char_to_frequency ends the loop and leaves the function
RECURSIVE TextLoop(_, _, _, _)
TextLoop(sc, text, i, result) ==
    IF i > Len(text) THEN [raised |-> "", result |-> result]
    ELSE IF text[i] \in Whitespace
    THEN TextLoop(sc, text, i + 1, Append(result, RestEntry(i - 1, text[i])))
    ELSE LET f == char_to_frequency(sc, <<text[i]>>)
         IN  IF f.raised # "" THEN [raised |-> f.raised, result |-> <<>>]
             ELSE TextLoop(sc, text, i + 1,
                           Append(result, ToneEntry(i - 1, text[i], f.semitones)))

text_to_frequencies(sc, text) == TextLoop(sc, text, 1, <<>>)

-----------------------------------------------------------------------------
(* ContentMapper: colors                                                     *)
(*                                                                           *)
(* A real number is kept exactly, as a pair <<numerator, denominator>>.      *)

None == [none |-> TRUE]

HexLower == <<"0", "1", "2", "3", "4", "5", "6", "7", "8", "9",
              "a", "b", "c", "d", "e", "f">>
HexUpper == <<"0", "1", "2", "3", "4", "5", "6", "7", "8", "9",
              "A", "B", "C", "D", "E", "F">>

\* the value int(.., 16) gives a character as a digit, -1 when it is none;
\* int() also reads the decimal digits of other scripts ("U+0663" is the
\* Arabic-Indic digit three)
HexDigitValue(c) ==
    CASE IsIn(HexLower, c) -> IndexIn(HexLower, c) - 1
      [] IsIn(HexUpper, c) -> IndexIn(HexUpper, c) - 1
      [] c = "U+0663"      -> 3
      [] OTHER             -> -1

\* int(s, 16) of a string of two characters: two digits; one digit after or
\* before whitespace; one digit after a sign. Anything else is a ValueError.
IntHex2(s) ==
    LET a == HexDigitValue(s[1])
        b == HexDigitValue(s[2])
    IN  CASE a >= 0 /\ b >= 0              -> [ok |-> TRUE, value |-> 16 * a + b]
          [] s[1] \in Whitespace /\ b >= 0 -> [ok |-> TRUE, value |-> b]
          [] a >= 0 /\ s[2] \in Whitespace -> [ok |-> TRUE, value |-> a]
          [] s[1] = "+" /\ b >= 0          -> [ok |-> TRUE, value |-> b]
          [] s[1] = "-" /\ b >= 0          -> [ok |-> TRUE, value |-> -b]
          [] OTHER                         -> [ok |-> FALSE, value |-> 0]

\* str.lstrip('#'): every leading '#' goes
RECURSIVE LStripHash(_)
LStripHash(s) == IF s # <<>> /\ Head(s) = "#" THEN LStripHash(Tail(s)) ELSE s

\* ''.join([c * 2 for c in hex_color])
Doubled(s) == [i \in 1..(2 * Len(s)) |-> s[(i + 1) \div 2]]

\* hex_to_rgb, lines 144-155
hex_to_rgb_six_only(hex_color) ==
    LET h == LStripHash(hex_color)
        byte(i) == IntHex2(SubSeq(h, i, i + 1))
    IN  IF Len(h) # 6 THEN [ok |-> FALSE, rgb |-> <<>>]
        ELSE IF \A i \in {1, 3, 5} : byte(i).ok
        THEN [ok |-> TRUE, rgb |-> <<byte(1).value, byte(3).value, byte(5).value>>]
        ELSE [ok |-> FALSE, rgb |-> <<>>]
hex_to_rgb(hex_color) ==
    LET h0 == LStripHash(hex_color)
        h == IF Len(h0) = 3 THEN Doubled(h0) ELSE h0
        byte(i) == IntHex2(SubSeq(h, i, i + 1))
    IN  IF Len(h) # 6 THEN [ok |-> FALSE, rgb |-> <<>>]
        ELSE IF \A i \in {1, 3, 5} : byte(i).ok
        THEN [ok |-> TRUE, rgb |-> <<byte(1).value, byte(3).value, byte(5).value>>]
        ELSE [ok |-> FALSE, rgb |-> <<>>]

Max3(a, b, c) == IF a >= b /\ a >= c THEN a ELSE IF b >= c THEN b ELSE c
Min3(a, b, c) == IF a <= b /\ a <= c THEN a ELSE IF b <= c THEN b ELSE c

\* rgb_to_hsl, lines 169-188, on channels in 255ths. The division of line
\* 179 is by max_c + min_c when l <= 0.5 and raises ZeroDivisionError when
\* that sum is 0 (the channels differ, so one of them is negative).
rgb_to_hsl(r, g, b) ==
    LET max_c == Max3(r, g, b)
        min_c == Min3(r, g, b)
        l == <<max_c + min_c, 510>>
        d == max_c - min_c
        s_den == IF max_c + min_c > 255 THEN 510 - max_c - min_c ELSE max_c + min_c
        h_num == IF max_c = r THEN (g - b) + (IF g < b THEN 6 * d ELSE 0)
                 ELSE IF max_c = g THEN (b - r) + 2 * d
                 ELSE (r - g) + 4 * d
    IN  IF max_c = min_c
        THEN [raised |-> "", h |-> <<0, 1>>, s |-> <<0, 1>>, l |-> l]
        ELSE IF s_den = 0
        THEN [raised |-> "ZeroDivisionError", h |-> <<0, 1>>, s |-> <<0, 1>>, l |-> l]
        ELSE [raised |-> "", h |-> <<60 * h_num, d>>, s |-> <<d, s_den>>, l |-> l]

\* q > n / m for a pair q and positive m
Greater(q, n, m) ==
    IF q[2] > 0 THEN q[1] * m > n * q[2] ELSE q[1] * m < n * q[2]

\* '{:02x}'.format(v)
RECURSIVE HexDigitsOf(_)
HexDigitsOf(v) ==
    IF v < 16 THEN <<HexLower[v + 1]>>
    ELSE Append(HexDigitsOf(v \div 16), HexLower[(v % 16) + 1])
Format02xUnpadded(v) == HexDigitsOf(v)
Format02x(v) == IF v < 16 THEN <<"0">> \o HexDigitsOf(v) ELSE HexDigitsOf(v)

\* _get_complementary_color, lines 237-242
get_complementary_color(hex_color) ==
    LET p == hex_to_rgb(hex_color)
    IN  IF ~p.ok THEN <<"#", "0", "0", "0", "0", "0", "0">>
        ELSE <<"#">> \o Format02x(255 - p.rgb[1]) \o Format02x(255 - p.rgb[2])
                    \o Format02x(255 - p.rgb[3])

\* color_to_sound, lines 200-233 (the numbers before rounding)
color_to_sound(hex_color) ==
    LET p == hex_to_rgb(hex_color)
        hsl == rgb_to_hsl(p.rgb[1], p.rgb[2], p.rgb[3])
        waveform == IF Greater(hsl.s, 7, 10) THEN "sawtooth"
                    ELSE IF Greater(hsl.s, 4, 10) THEN "triangle"
                    ELSE "sine"
    IN  IF ~p.ok
        THEN [raised |-> "",
              result |-> [frequency |-> <<440, 1>>, waveform |-> "sine",
                          rgb |-> None, hsl |-> None,
                          error |-> "Invalid color format"]]
        ELSE IF hsl.raised # ""
        THEN [raised |-> hsl.raised, result |-> EmptyDict]
        ELSE [raised |-> "",
              result |->
                 [frequency |-> <<600 * hsl.h[2] + 5 * hsl.h[1], 3 * hsl.h[2]>>,
                  waveform |-> waveform,
                  volume_modifier |-> <<510 + hsl.l[1], 1020>>,
                  rgb |-> [r |-> p.rgb[1], g |-> p.rgb[2], b |-> p.rgb[3]],
                  hsl |-> [h |-> hsl.h, s |-> hsl.s, l |-> hsl.l],
                  complementary |-> get_complementary_color(hex_color)]]

-----------------------------------------------------------------------------
(* ContentMapper: content detection, and the routes over the shared mapper   *)

\* the 'value' of a detection: None, a string or a float
DNone == [kind |-> "none", str |-> <<>>, num |-> Fin(0)]
DStr(s) == [kind |-> "str", str |-> s, num |-> Fin(0)]
DNum(f) == [kind |-> "float", str |-> <<>>, num |-> f]

\* all(c in '0123456789ABCDEFabcdef' for c in hex_part)
AsciiHex(s) == \A i \in 1..Len(s) : IsIn(HexLower, s[i]) \/ IsIn(HexUpper, s[i])

\* detect_content_type, lines 299-321, of the JSON value sent as 'content'
detect_content_type_text_first(content) ==
    IF content.kind # "string" \/ Strip(content.text) = <<>>
    THEN [type |-> "unknown", value |-> DNone]
    ELSE [type |-> "text", value |-> DStr(Strip(content.text))]
detect_content_type(content) ==
    IF content.kind # "string" \/ content.text = <<>>
    THEN [type |-> "unknown", value |-> DNone]
    ELSE LET c == Strip(content.text)
             f == ParseFloat(c)
         IN  IF c # <<>> /\ Head(c) = "#" /\ Len(Tail(c)) \in {3, 6} /\ AsciiHex(Tail(c))
             THEN [type |-> "color", value |-> DStr(c)]
             ELSE IF f.ok THEN [type |-> "number", value |-> DNum(f.value)]
             ELSE IF c # <<>> THEN [type |-> "text", value |-> DStr(c)]
             ELSE [type |-> "unknown", value |-> DNone]

RECURSIVE SumDurations(_)
SumDurations(fs) == IF fs = <<>> THEN 0 ELSE Head(fs).duration + SumDurations(Tail(fs))

\* set_scale, lines 54-57
set_scale(name) ==
    /\ scale' = get_scale(name)
    /\ scale_name' = name
    /\ UNCHANGED <<StoreVars, last, ThreadVars, response, mt>>

\* the route /api/map/text, lines 470-485, served without interruption
map_text(text, name) ==
    /\ scale' = get_scale(name)
    /\ scale_name' = name
    /\ LET f == text_to_frequencies(scale', text)
       IN  response' =
              IF f.raised # ""
              THEN [endpoint |-> "map_text", input |-> text, scale |-> name,
                    status |-> 500, error |-> f.raised, body |-> EmptyDict]
              ELSE [endpoint |-> "map_text", input |-> text, scale |-> name,
                    status |-> 200, error |-> "",
                    body |-> [input |-> text, scale |-> name, mappings |-> f.result,
                              total_duration |-> SumDurations(f.result)]]
    /\ UNCHANGED <<StoreVars, last, ThreadVars, mt>>

\* the mapping map_auto builds for a detection under the scale sc, lines 520-530
AutoMapping(sc, detected) ==
    CASE detected.type = "text" ->
            LET f == text_to_frequencies(sc, detected.value.str)
            IN  [raised |-> f.raised,
                 mapping |-> IF f.raised # "" THEN EmptyDict
                             ELSE [mappings |-> f.result,
                                   total_duration |-> SumDurations(f.result)]]
      [] detected.type = "color" ->
            LET c == color_to_sound(detected.value.str)
            IN  [raised |-> c.raised, mapping |-> c.result]
      [] detected.type = "number" ->
            LET n == number_to_pattern(detected.value.num)
            IN  [raised |-> n.raised, mapping |-> n.result]
      [] OTHER -> [raised |-> "", mapping |-> EmptyDict]

\* the route /api/map/auto, lines 512-535: an exception of the conversion
\* leaves the handler (HTTP 500)
map_auto(content) ==
    /\ LET detected == detect_content_type(content)
           m == AutoMapping(scale, detected)
       IN  response' =
              IF m.raised # ""
              THEN [endpoint |-> "map_auto", input |-> content, status |-> 500,
                    error |-> m.raised, body |-> EmptyDict]
              ELSE [endpoint |-> "map_auto", input |-> content, status |-> 200,
                    error |-> "",
                    body |-> [detected |-> detected, mapping |-> m.mapping]]
    /\ UNCHANGED <<StoreVars, last, ThreadVars, MapperVars>>

\* the route /api/detect, lines 462-468
detect_content(content) ==
    /\ response' = [endpoint |-> "detect", input |-> content, status |-> 200,
                    error |-> "", body |-> detect_content_type(content)]
    /\ UNCHANGED <<StoreVars, last, ThreadVars, MapperVars>>

ScaleNames == {"pentatonic", "major", "minor", "Major", "blues", ""}

AutoStrings ==
    { <<>>, <<" ", " ">>, <<"h", "e", "l", "l", "o">>, <<" ", "c", "d", " ">>,
      <<"a", " ", "Z">>, <<"U+00DF">>, <<"a", "U+00DF">>, <<"!">>,
      <<"4", "2">>, <<" ", "-", "7", " ">>, <<"3", "5">>,
      <<"n", "a", "n">>, <<"i", "n", "f">>, <<"-", "I", "N", "F">>,
      <<"#", "f", "f", "0", "0", "0", "0">>, <<" ", "#", "F", "a", "0">>,
      <<"#", "1", "2", "3">>, <<"#", "1", "2", "3", "4", "5", "6">>,
      <<"#", "1", "2">>, <<"#", "1", "2", "3", "4">>, <<"#", "g", "g", "g">>,
      <<"#", "+", "1", "2">>, <<"#">>, <<"1", "2", "3">>, <<"f", "f", "f">> }

AutoInputs ==
    {JString(s) : s \in AutoStrings}
    \cup {JMissing, JNull, JArray, JBool(TRUE), JNumber(Fin(42))}

TextInputs == { <<>>, <<"c">>, <<"d">>, <<"c", " ", "d">>, <<"a", "U+00DF">> }

\* a server whose first request is yet to come, over an absent storage file
InitMapper == Init /\ storage_file = AbsentFile

NextMapper ==
    \/ \E t \in TextInputs, n \in ScaleNames : map_text(t, n)
    \/ \E c \in AutoInputs : map_auto(c)
    \/ \E c \in AutoInputs : detect_content(c)

SpecMapper == InitMapper /\ [][NextMapper]_vars

-----------------------------------------------------------------------------
(* The mapper's methods called one at a time, as the unit tests call them    *)

MaxTextLen == 2

Letters == {Uppers[i] : i \in 1..26} \cup {Lowers[i] : i \in 1..26}
Chars ==
    Letters \cup {Digits[i] : i \in 1..10}
    \cup {"!", "#", "+", "-", ".", " ", "\t", "\n", "U+00A0",
          "U+00DF", "U+00E9", "U+0131", "U+017F", "U+0663"}
TextChars == {"a", "Z", " ", "!", "U+00DF"}
Texts == UNION {[1..n -> TextChars] : n \in 0..MaxTextLen}

call_char_to_frequency(char) ==
    /\ LET f == char_to_frequency(scale, char)
       IN  response' = [endpoint |-> "char_to_frequency", input |-> char,
                        scale |-> scale,
                        raised |-> f.raised, semitones |-> f.semitones]
    /\ UNCHANGED <<StoreVars, last, ThreadVars, MapperVars>>

call_text_to_frequencies(text) ==
    /\ LET f == text_to_frequencies(scale, text)
       IN  response' = [endpoint |-> "text_to_frequencies", input |-> text,
                        raised |-> f.raised, result |-> f.result]
    /\ UNCHANGED <<StoreVars, last, ThreadVars, MapperVars>>

NextText ==
    \/ \E n \in ScaleNames : set_scale(n)
    \/ \E c \in Chars : call_char_to_frequency(<<c>>)
    \/ call_char_to_frequency(<<>>)
    \/ \E t \in Texts : call_text_to_frequencies(t)

SpecText == InitMapper /\ [][NextText]_vars

\* C19: char_to_frequency never raises, for the empty string and for every
\* single character, and every character that is neither a letter A-Z/a-z
\* nor a digit 0-9 gets the base frequency 220.0 (0 semitones above it).
C19_CharToFrequencyTotal ==
    response.endpoint = "char_to_frequency" =>
        /\ response.raised = ""
        /\ (\/ response.input = <<>>
            \/ (response.input[1] \notin Letters
                /\ ~IsIn(Digits, response.input[1]))) => response.semitones = 0

\* C20: text_to_frequencies(s) returns len(s) entries in input order: entry i
\* has index i and char s[i]; a whitespace character is a rest of duration
\* 0.1, every other character sounds (a positive frequency) for 0.2.
C20_OneEntryPerCharacter ==
    response.endpoint = "text_to_frequencies" =>
        /\ response.raised = ""
        /\ Len(response.result) = Len(response.input)
        /\ \A i \in 1..Len(response.input) :
              LET e == response.result[i]
                  c == response.input[i]
              IN  /\ e.index = i - 1
                  /\ e.char = c
                  /\ IF c \in Whitespace
                     THEN e.silent /\ e.note.name = "rest" /\ e.duration = 1
                     ELSE ~e.silent /\ e.duration = 2

-----------------------------------------------------------------------------
(* The color methods called one at a time                                    *)

HexPairs == { <<"f", "f">>, <<"0", "0">>, <<"7", "A">>, <<"0", "f">>, <<"-", "f">> }
HexSingles == {"f", "0", "G"}
ColorBodies ==
    {a \o b \o c : a \in HexPairs, b \in HexPairs, c \in HexPairs}
    \cup [1..3 -> HexSingles]
    \cup { <<>>, <<"f">>, <<"f", "f">>, <<"f", "f", "f", "f">>,
           <<"f", "f", "f", "f", "f">>, <<"f", "f", "f", "f", "f", "f", "f">>,
           <<"+", "1", "+", "2", "+", "3">>, <<" ", "f", " ", "f", " ", "f">>,
           <<"f", " ", "f">>, <<"U+0663", "U+0663", "U+0663">>,
           <<"#", "f", "f", "0", "0", "0", "0">>, <<"f", "f", "#">> }
ColorInputs == ColorBodies \cup {<<"#">> \o b : b \in ColorBodies}

call_hex_to_rgb(hex_color) ==
    /\ LET p == hex_to_rgb(hex_color)
       IN  response' = [endpoint |-> "hex_to_rgb", input |-> hex_color,
                        ok |-> p.ok, rgb |-> p.rgb]
    /\ UNCHANGED <<StoreVars, last, ThreadVars, MapperVars>>

call_color_to_sound(hex_color) ==
    /\ LET c == color_to_sound(hex_color)
       IN  response' = [endpoint |-> "color_to_sound", input |-> hex_color,
                        raised |-> c.raised, result |-> c.result]
    /\ UNCHANGED <<StoreVars, last, ThreadVars, MapperVars>>

NextColor ==
    \/ \E h \in ColorInputs : call_hex_to_rgb(h)
    \/ \E h \in ColorInputs : call_color_to_sound(h)

SpecColor == InitMapper /\ [][NextColor]_vars

\* C16: hex_to_rgb returns a result exactly when its input, leading '#'
\* stripped, is 3 or 6 characters that are all hex digits 0-9, a-f, A-F.
C16_HexToRgbAcceptsOnlyHexDigits ==
    response.endpoint = "hex_to_rgb" =>
        LET h == LStripHash(response.input)
        IN  response.ok = (Len(h) \in {3, 6} /\ AsciiHex(h))

\* six hex digits, with or without the '#' in front
ValidHex6(h) ==
    \/ Len(h) = 6 /\ AsciiHex(h)
    \/ Len(h) = 7 /\ h[1] = "#" /\ AsciiHex(Tail(h))

\* C17: for a valid 6-digit hex string h the complementary color is '#' and
\* six lowercase hex digits, its channels are 255 minus the channels of h,
\* and the complementary of the complementary has the channels of h.
C17_ComplementaryRoundTrip ==
    (response.endpoint = "color_to_sound" /\ ValidHex6(response.input)) =>
        /\ response.raised = ""
        /\ LET comp == response.result.complementary
               rgb == hex_to_rgb(response.input).rgb
           IN  /\ Len(comp) = 7
               /\ comp[1] = "#"
               /\ \A i \in 2..7 : IsIn(HexLower, comp[i])
               /\ hex_to_rgb(comp).ok
               /\ hex_to_rgb(comp).rgb = <<255 - rgb[1], 255 - rgb[2], 255 - rgb[3]>>
               /\ hex_to_rgb(get_complementary_color(comp)).rgb = rgb

C17_Witness ==
    /\ response.endpoint = "color_to_sound"
    /\ response.input = <<"#", "7", "A", "0", "0", "f", "f">>
    /\ response.raised = ""
    /\ response.result.complementary = <<"#", "8", "5", "f", "f", "0", "0">>

\* C18: a color_to_sound result carries an error exactly when hex_to_rgb
\* rejects the input, and then rgb and hsl are null; when hex_to_rgb accepts
\* the input the result has no error and carries rgb, hsl, volume_modifier
\* and complementary.
C18_ValidFieldsOrError ==
    response.endpoint = "color_to_sound" =>
        /\ response.raised = ""
        /\ LET r == response.result
           IN  IF hex_to_rgb(response.input).ok
               THEN /\ "error" \notin DOMAIN r
                    /\ {"rgb", "hsl", "volume_modifier", "complementary"} \subseteq DOMAIN r
                    /\ "r" \in DOMAIN r.rgb
                    /\ "h" \in DOMAIN r.hsl
               ELSE /\ "error" \in DOMAIN r
                    /\ r.rgb = None
                    /\ r.hsl = None

-----------------------------------------------------------------------------
(* /api/map/text served by two threads over the one shared mapper: a thread  *)
(* may be suspended between any two reads or writes of the mapper's scale    *)

MapTextResponse(m, status, error) ==
    [endpoint |-> "map_text", input |-> m.text, scale |-> m.scale,
     status |-> status, error |-> error,
     body |-> IF status # 200 THEN EmptyDict
              ELSE [input |-> m.text, scale |-> m.scale, mappings |-> m.out,
                    total_duration |-> SumDurations(m.out)]]

\* lines 473-474: the request is read
mt_receive(t, text, name) ==
    /\ mt[t].pc = "idle"
    /\ mt' = [mt EXCEPT ![t] = [MtIdle EXCEPT !.pc = "set_scale", !.text = text,
                                              !.scale = name]]
    /\ UNCHANGED <<StoreVars, last, ThreadVars, response, scale, scale_name>>

\* line 476: content_mapper.set_scale(scale)
mt_set_scale(t) ==
    /\ mt[t].pc = "set_scale"
    /\ scale' = get_scale(mt[t].scale)
    /\ scale_name' = mt[t].scale
    /\ mt' = [mt EXCEPT ![t].pc = "char"]
    /\ UNCHANGED <<StoreVars, last, ThreadVars, response>>

\* one turn of the loop of text_to_frequencies, up to the first read of the
\* shared scale (line 77) when the character is a letter
mt_char(t) ==
    LET m == mt[t]
        c == m.text[m.i]
        up == Upper(c)
        char_code == Ord(up[1])
    IN  /\ m.pc = "char"
        /\ m.i <= Len(m.text)
        /\ UNCHANGED <<StoreVars, last, ThreadVars, scale, scale_name>>
        /\ IF c \in Whitespace
           THEN /\ mt' = [mt EXCEPT ![t].out = Append(m.out, RestEntry(m.i - 1, c)),
                                    ![t].i = m.i + 1]
                /\ UNCHANGED response
           ELSE IF Len(up) # 1
           THEN /\ response' = MapTextResponse(m, 500, "TypeError")
                /\ mt' = [mt EXCEPT ![t] = MtIdle]
           ELSE IF 65 <= char_code /\ char_code <= 90
           THEN /\ mt' = [mt EXCEPT ![t].pc = "octave",
                                    ![t].scale_index = (char_code - 65) % Len(scale)]
                /\ UNCHANGED response
           ELSE LET n == IF 48 <= char_code /\ char_code <= 57
                         THEN char_code - 48 ELSE 0
                IN  /\ mt' = [mt EXCEPT ![t].out = Append(m.out, ToneEntry(m.i - 1, c, n)),
                                        ![t].i = m.i + 1]
                    /\ UNCHANGED response

\* line 78: the second read of len(self.scale)
mt_octave(t) ==
    LET m == mt[t]
        char_code == Ord(Upper(m.text[m.i])[1])
    IN  /\ m.pc = "octave"
        /\ mt' = [mt EXCEPT ![t].pc = "element",
                            ![t].octave_offset = ((char_code - 65) \div Len(scale)) * 12]
        /\ UNCHANGED <<StoreVars, last, ThreadVars, response, scale, scale_name>>

\* lines 79-80 and the append of lines 103-109: self.scale[scale_index]
\* raises IndexError when the scale is shorter than the one measured
mt_element(t) ==
    LET m == mt[t]
    IN  /\ m.pc = "element"
        /\ UNCHANGED <<StoreVars, last, ThreadVars, scale, scale_name>>
        /\ IF m.scale_index + 1 > Len(scale)
           THEN /\ response' = MapTextResponse(m, 500, "IndexError")
                /\ mt' = [mt EXCEPT ![t] = MtIdle]
           ELSE /\ mt' = [mt EXCEPT
                            ![t].out = Append(m.out,
                                ToneEntry(m.i - 1, m.text[m.i],
                                          scale[m.scale_index + 1] + m.octave_offset)),
                            ![t].i = m.i + 1,
                            ![t].pc = "char"]
                /\ UNCHANGED response

\* lines 479-484: the response is built
mt_return(t) ==
    LET m == mt[t]
    IN  /\ m.pc = "char"
        /\ m.i > Len(m.text)
        /\ response' = MapTextResponse(m, 200, "")
        /\ mt' = [mt EXCEPT ![t] = MtIdle]
        /\ UNCHANGED <<StoreVars, last, ThreadVars, scale, scale_name>>

ThreadTexts == { <<"f">>, <<"c", " ">>, <<"U+00DF">> }
ThreadScales == {"pentatonic", "major", "minor"}

NextMapText ==
    \E t \in Threads :
        \/ \E text \in ThreadTexts, name \in ThreadScales : mt_receive(t, text, name)
        \/ mt_set_scale(t)
        \/ mt_char(t)
        \/ mt_octave(t)
        \/ mt_element(t)
        \/ mt_return(t)

SpecMapText == InitMapper /\ [][NextMapText]_vars

\* C12: each map_text response carries the mappings of its text under the
\* scale named in the same request, also when two requests are interleaved.
C12_MappingsOfRequestedScale ==
    (response.endpoint = "map_text" /\ response.status = 200) =>
        response.body.mappings =
            text_to_frequencies(get_scale(response.scale), response.input).result

-----------------------------------------------------------------------------
(* Claims about the routes over the shared mapper                            *)

\* C11: every map_auto request whose content is a string is answered with a
\* {detected, mapping} body: the conversion chosen for the detected type
\* completes without raising, and unknown content gets the empty mapping.
C11_MapAutoNeverFatal ==
    (response.endpoint = "map_auto" /\ response.input.kind = "string") =>
        /\ response.status = 200
        /\ DOMAIN response.body = {"detected", "mapping"}
        /\ response.body.detected.type = "unknown" => response.body.mapping = EmptyDict

\* C13: the answer of a map_auto request depends on its content alone: it is
\* the answer a server gives that has served no request before, whatever
\* map_text requests came earlier.
C13_MapAutoIndependent ==
    response.endpoint = "map_auto" =>
        LET detected == detect_content_type(response.input)
            fresh == AutoMapping(get_scale("pentatonic"), detected)
        IN  /\ (response.status = 200) = (fresh.raised = "")
            /\ response.status = 200 => response.body.mapping = fresh.mapping

\* C14: after construction and after any sequence of set_scale calls the
\* scale offsets are the table entry of the last name given when it is
\* 'pentatonic', 'major' or 'minor', and the pentatonic offsets otherwise.
C14_ScaleFallsBackToPentatonic ==
    scale = IF scale_name = "major" THEN <<0, 2, 4, 5, 7, 9, 11>>
            ELSE IF scale_name = "minor" THEN <<0, 2, 3, 5, 7, 8, 10>>
            ELSE <<0, 2, 4, 7, 9>>

C14_Witness ==
    /\ scale_name = "blues"
    /\ scale = <<0, 2, 4, 7, 9>>
    /\ response = NoResponse

\* '#' followed by exactly 3 or 6 hex digits
IsColorString(c) ==
    /\ Len(c) \in {4, 7}
    /\ c[1] = "#"
    /\ \A i \in 2..Len(c) : IsIn(HexLower, c[i]) \/ IsIn(HexUpper, c[i])

\* C15: detection follows a fixed priority: non-string, empty or
\* whitespace-only input is 'unknown' with no value; otherwise the trimmed
\* string is a 'color' when it is '#' and 3 or 6 hex digits; otherwise a
\* 'number' with the parsed value when it parses as a float; otherwise 'text'
\* with the trimmed string.
C15_DetectionPriority ==
    response.endpoint = "detect" =>
        LET content == response.input
            c == Strip(content.text)
            d == response.body
        IN  IF content.kind # "string" \/ c = <<>>
            THEN d = [type |-> "unknown", value |-> DNone]
            ELSE IF IsColorString(c)
            THEN d = [type |-> "color", value |-> DStr(c)]
            ELSE IF ParseFloat(c).ok
            THEN d = [type |-> "number", value |-> DNum(ParseFloat(c).value)]
            ELSE d = [type |-> "text", value |-> DStr(c)]

C15_Witness ==
    /\ response.endpoint = "detect"
    /\ response.input = JString(<<" ", "-", "7", " ">>)
    /\ response.body.type = "number"
    /\ response.body.value.num = Fin(-7)

-----------------------------------------------------------------------------
(* Further claims about UserPreferences                                      *)

\* C23: after any sequence of add_preset calls any two presets in the same
\* user's stored list have different ids.
C23_PresetIdsUnique ==
    \A u \in Users :
        LET ps == PresetsOf(heap, preferences, u)
        IN  \A i, j \in 1..Len(ps) : i # j => ps[i].id # ps[j].id

\* the record get_preferences returns for a user from a store constructed
\* over the file
FileRecordOf(file, u) ==
    LET loaded == LoadPreferences(file)
    IN  RecordOf(loaded.heap, loaded.preferences, u)

\* C25: a set_preferences or add_preset call for one user leaves the record
\* of every other user unchanged, in memory and in the persisted file.
C25_UsersIsolated ==
    [][ IsWrite(last') =>
          \A b \in Users \ {last'.user} :
              /\ RecordOf(heap', preferences', b) = RecordOf(heap, preferences, b)
              /\ FileRecordOf(storage_file', b) = FileRecordOf(storage_file, b) ]_vars

\* C26: every record returned by get_preferences has the five fields volume,
\* speed, intensity, scale and presets.
C26_AllFieldsPresent ==
    last.op = "get_preferences" =>
        {"volume", "speed", "intensity", "scale", "presets"} \subseteq DOMAIN last.ret

-----------------------------------------------------------------------------
(* Further claims about the mapper                                           *)

\* C24: under each of the three scales (length n) the letter with index i
\* (A=0 .. Z=25, either case) gets scale[i mod n] + 12*floor(i/n) semitones
\* above the base; the offset is 0 for 'A'/'a' and strictly increasing in i;
\* a digit d gets offset d whatever the scale.
C24_LetterOffsets ==
    (response.endpoint = "char_to_frequency" /\ response.input # <<>>) =>
        LET c == response.input[1]
            sc == response.scale
            n == Len(sc)
            Offset(i) == sc[(i % n) + 1] + 12 * (i \div n)
        IN  /\ sc \in { <<0, 2, 4, 7, 9>>, <<0, 2, 4, 5, 7, 9, 11>>,
                           <<0, 2, 3, 5, 7, 8, 10>> }
            /\ c \in Letters =>
                  LET i == IF IsIn(Uppers, c) THEN IndexIn(Uppers, c) - 1
                           ELSE IndexIn(Lowers, c) - 1
                  IN  /\ response.raised = ""
                      /\ response.semitones = Offset(i)
                      /\ i = 0 => response.semitones = 0
                      /\ \A j \in 0..(i - 1) : Offset(j) < response.semitones
            /\ IsIn(Digits, c) =>
                  /\ response.raised = ""
                  /\ response.semitones = IndexIn(Digits, c) - 1

C24_Witness ==
    /\ response.endpoint = "char_to_frequency"
    /\ response.input = <<"z">>
    /\ response.scale = <<0, 2, 3, 5, 7, 8, 10>>
    /\ response.semitones = 43

\* C27: the index char_to_frequency uses to read the scale is within the
\* bounds of the scale it reads, also when another request's set_scale
\* replaces the shared scale between the read of the length and the read of
\* the element: no map_text request ends in an IndexError.
C27_ScaleIndexInBounds ==
    ~(response.endpoint = "map_text" /\ response.error = "IndexError")

\* C28: content that detect_content_type classifies as a color is accepted
\* by hex_to_rgb: map_auto answers it with a color mapping, never with the
\* 'Invalid color format' error mapping.
C28_DetectedColorIsAccepted ==
    (response.endpoint = "map_auto"
     /\ detect_content_type(response.input).type = "color") =>
        /\ response.status = 200
        /\ response.body.detected.type = "color"
        /\ "error" \notin DOMAIN response.body.mapping
        /\ "r" \in DOMAIN response.body.mapping.rgb

C28_Witness ==
    /\ response.endpoint = "map_auto"
    /\ response.input = JString(<<" ", "#", "F", "a", "0">>)
    /\ response.body.detected = [type |-> "color", value |-> DStr(<<"#", "F", "a", "0">>)]
    /\ response.body.mapping.rgb = [r |-> 255, g |-> 170, b |-> 0]

====
